---- MODULE Spec2Model ----
(***************************************************************************)
(* A model of the gpud sources:                                            *)
(*   - the NVIDIA PCI lister (ListNVIDIAPCIs) and the reboot helper        *)
(*     (Reboot / rebootFunc), both driving a subprocess through the        *)
(*     process runner: a stdout pipe and a single-fire completion channel; *)
(*   - the OS component's Output <-> states conversion;                    *)
(*   - the NVSwitch SXid dmesg line parser;                                *)
(*   - SuggestedActions.RequiresReboot.                                    *)
(* Each part has its own specification over the shared variable list; the  *)
(* variables of the other parts stay at their initial value.               *)
(***************************************************************************)
EXTENDS Integers, Sequences, FiniteSets, TLC

VARIABLES
    \* ---- process runner handle (pkg/process) and the caller's context
    procState,      \* "none" | "created" | "running" | "exited"
    toWrite,        \* lines the process has still to write
    pipe,           \* lines written to stdout and not yet read
    exitErr,        \* the exit error of the process
    waitCh,         \* content of the channel returned by Wait()
    ctxDone,        \* ctx.Done() is closed
    waitRecv,       \* history: successful receives from Wait()
    waitRetry,      \* history: a receive from Wait() was attempted after one succeeded
    startCalls,     \* history: calls of Start
    \* ---- ListNVIDIAPCIs
    pc,             \* position in ListNVIDIAPCIs
    lines,          \* the collected lines
    serr,           \* scanner.Err()
    ret,            \* the returned (lines, err)
    midStream,      \* history: ctx was cancelled while the process was producing output
    \* ---- Reboot
    asRoot,         \* stdos.Geteuid() == 0
    options,        \* the Op built by applyOpts
    cmd,            \* the command line
    rpc,            \* position of the Reboot call
    rebootRet,      \* the error returned by Reboot
    gpc,            \* position of the delayed goroutine
    timer,          \* the time.After timer: "none" | "armed" | "fired"
    fpc,            \* position in rebootFunc
    fserr,          \* scanner.Err() in rebootFunc
    fret,           \* the error returned by rebootFunc
    earlyCancel,    \* history: ctx was cancelled before the delay expired
    \* ---- OS component
    o,              \* the Output
    states,         \* the result of o.States()
    parsed,         \* the result of ParseStatesToOutput
    single,         \* the result of one ParseState* function
    ospc,           \* "input" | "states" | "parsed"
    \* ---- SXid dmesg
    line,           \* the dmesg line
    de,             \* the result of ParseDmesgLogLine
    \* ---- suggested actions
    sa,             \* the RepairActions of a SuggestedActions
    got             \* the result of RequiresReboot

procVars   == <<procState, toWrite, pipe, exitErr, waitCh, ctxDone, waitRecv, waitRetry, startCalls>>
pciVars    == <<pc, lines, serr, ret, midStream>>
rebootVars == <<asRoot, options, cmd, rpc, rebootRet, gpc, timer, fpc, fserr, fret, earlyCancel>>
osVars     == <<o, states, parsed, single, ospc>>
sxidVars   == <<line, de>>
actVars    == <<sa, got>>
vars       == <<procVars, pciVars, rebootVars, osVars, sxidVars, actVars>>

pureVars     == <<osVars, sxidVars, actVars>>
callerVars   == <<pciVars, rebootVars>>

(***************************************************************************)
(* Bounds                                                                  *)
(***************************************************************************)
MaxOut == 2         \* lines a process writes
PipeCap == 1        \* lines the stdout pipe buffers before a write blocks

(***************************************************************************)
(* Errors                                                                  *)
(***************************************************************************)
Nil         == "nil"
ErrCanceled == "context canceled"
ErrKilled   == "signal: killed"
ErrExit     == "exit status 1"
ErrClosed   == "read |0: file already closed"
ErrIO       == "read |0: input/output error"
ErrStart    == "start failed"
ErrNew      == "no command"
ErrNotRoot  == "must be run as sudo/root"

Range(s) == {s[i] : i \in DOMAIN s}

SeqsUpTo(S, n) == UNION {[1..k -> S] : k \in 0..n}

(***************************************************************************)
(* The process runner. A started process writes its lines to the stdout    *)
(* pipe, then exits; on exit the channel of Wait() receives the exit error *)
(* once. A process started with ctx is terminated when ctx is cancelled.   *)
(***************************************************************************)
ProcInit ==
    /\ procState = "none"
    /\ toWrite = <<>>
    /\ pipe = <<>>
    /\ exitErr = Nil
    /\ waitCh = <<>>
    /\ ctxDone = FALSE
    /\ waitRecv = 0
    /\ waitRetry = FALSE
    /\ startCalls = 0

\* a line of lspci output, as its words
LineNVIDIA == <<"VGA", "NVIDIA">>
LineOther  == <<"VGA", "Intel">>
OutputLines == {LineNVIDIA, LineOther}

\* p.Start(ctx), succeeding: the process runs, will write out and exit with e
Started(out, e) ==
    /\ procState' = "running"
    /\ toWrite' = out
    /\ exitErr' = e
    /\ startCalls' = startCalls + 1
    /\ UNCHANGED <<pipe, waitCh, ctxDone, waitRecv, waitRetry>>

\* p.Start(ctx), failing
StartFailed ==
    /\ startCalls' = startCalls + 1
    /\ UNCHANGED <<procState, toWrite, exitErr, pipe, waitCh, ctxDone, waitRecv, waitRetry>>

\* a receive from the channel of Wait()
WaitReady == waitCh # <<>>

Received ==
    /\ waitCh' = Tail(waitCh)
    /\ waitRecv' = waitRecv + 1

\* the process writes its next line; the write blocks while the pipe is full
ProcWrite ==
    /\ procState = "running"
    /\ toWrite # <<>>
    /\ Len(pipe) < PipeCap
    /\ pipe' = Append(pipe, Head(toWrite))
    /\ toWrite' = Tail(toWrite)
    /\ UNCHANGED <<procState, exitErr, waitCh, ctxDone, waitRecv, waitRetry, startCalls>>
    /\ UNCHANGED <<callerVars, pureVars>>

\* the process has written everything and exits: the completion signal fires
ProcExit ==
    /\ procState = "running"
    /\ toWrite = <<>>
    /\ procState' = "exited"
    /\ waitCh' = Append(waitCh, exitErr)
    /\ UNCHANGED <<toWrite, pipe, exitErr, ctxDone, waitRecv, waitRetry, startCalls>>
    /\ UNCHANGED <<callerVars, pureVars>>

\* the runner terminates a running process whose context is cancelled
ProcKill ==
    /\ procState = "running"
    /\ ctxDone
    /\ procState' = "exited"
    /\ toWrite' = <<>>
    /\ exitErr' = ErrKilled
    /\ waitCh' = Append(waitCh, ErrKilled)
    /\ UNCHANGED <<pipe, ctxDone, waitRecv, waitRetry, startCalls>>
    /\ UNCHANGED <<callerVars, pureVars>>

\* strings.Contains(serr.Error(), "file already closed")
AlreadyClosed(e) == e = ErrClosed

ReadErrors == {ErrClosed, ErrIO}

\* a read of the pipe can fail with e: the pipe is closed once the process is gone
ReadFails(e) ==
    /\ e \in ReadErrors
    /\ procState \in {"running", "exited"}
    /\ e = ErrClosed => procState = "exited"

(***************************************************************************)
(* ListNVIDIAPCIs                                                          *)
(***************************************************************************)
PCIInit ==
    /\ pc = "locate"
    /\ lines = <<>>
    /\ serr = Nil
    /\ ret = [lines |-> <<>>, err |-> Nil]
    /\ midStream = FALSE

PCIIdle ==
    /\ pc = "idle"
    /\ lines = <<>>
    /\ serr = Nil
    /\ ret = [lines |-> <<>>, err |-> Nil]
    /\ midStream = FALSE

\* strings.Contains(line, "NVIDIA")
ContainsNVIDIA(l) == \E i \in DOMAIN l : l[i] = "NVIDIA"

Return(ls, e) ==
    /\ ret' = [lines |-> ls, err |-> e]
    /\ pc' = "done"

\* file.LocateExecutable("lspci"): an error or an empty path is "no data"
PCI_Locate ==
    /\ pc = "locate"
    /\ \E found \in BOOLEAN :
          IF found THEN pc' = "new" /\ UNCHANGED ret
          ELSE Return(<<>>, Nil)
    /\ UNCHANGED <<lines, serr, midStream, procVars>>
    /\ UNCHANGED <<rebootVars, pureVars>>

PCI_New ==
    /\ pc = "new"
    /\ \/ /\ procState' = "created"
          /\ pc' = "start"
          /\ UNCHANGED ret
       \/ /\ Return(<<>>, ErrNew)
          /\ UNCHANGED procState
    /\ UNCHANGED <<lines, serr, midStream, toWrite, pipe, exitErr, waitCh, ctxDone,
                   waitRecv, waitRetry, startCalls>>
    /\ UNCHANGED <<rebootVars, pureVars>>

PCI_Start ==
    /\ pc = "start"
    /\ \/ /\ \E out \in SeqsUpTo(OutputLines, MaxOut), e \in {Nil, ErrExit} : Started(out, e)
          /\ pc' = "scan"
          /\ lines' = <<>>
          /\ UNCHANGED ret
       \/ /\ StartFailed
          /\ Return(<<>>, ErrStart)
          /\ UNCHANGED lines
    /\ UNCHANGED <<serr, midStream>>
    /\ UNCHANGED <<rebootVars, pureVars>>

\* scanner.Scan() returns true: one line is read and kept if it names NVIDIA
PCI_Scan ==
    /\ pc = "scan"
    /\ pipe # <<>>
    /\ lines' = IF ContainsNVIDIA(Head(pipe)) THEN Append(lines, Head(pipe)) ELSE lines
    /\ pipe' = Tail(pipe)
    /\ pc' = "select"
    /\ UNCHANGED <<serr, ret, midStream, procState, toWrite, exitErr, waitCh, ctxDone,
                   waitRecv, waitRetry, startCalls>>
    /\ UNCHANGED <<rebootVars, pureVars>>

\* the select with a default case inside the loop
PCI_Select ==
    /\ pc = "select"
    /\ waitRetry' = (waitRetry \/ waitRecv > 0)
    /\ IF WaitReady
       THEN /\ Received
            /\ IF Head(waitCh) # Nil
               THEN Return(<<>>, Head(waitCh))
               ELSE pc' = "scan" /\ UNCHANGED ret
       ELSE /\ pc' = "scan"
            /\ UNCHANGED <<ret, waitCh, waitRecv>>
    /\ UNCHANGED <<lines, serr, midStream, procState, toWrite, pipe, exitErr, ctxDone, startCalls>>
    /\ UNCHANGED <<rebootVars, pureVars>>

\* scanner.Scan() returns false at the end of the output, scanner.Err() is nil
PCI_ScanEOF ==
    /\ pc = "scan"
    /\ pipe = <<>>
    /\ procState = "exited"
    /\ serr' = Nil
    /\ pc' = "wait"
    /\ UNCHANGED <<lines, ret, midStream, procVars>>
    /\ UNCHANGED <<rebootVars, pureVars>>

\* scanner.Scan() returns false on a read error
PCI_ScanErr ==
    /\ pc = "scan"
    /\ \E e \in ReadErrors :
          /\ ReadFails(e)
          /\ serr' = e
          /\ IF ~AlreadyClosed(e)
             THEN Return(<<>>, e)
             ELSE pc' = "wait" /\ UNCHANGED ret
    /\ UNCHANGED <<lines, midStream, procVars>>
    /\ UNCHANGED <<rebootVars, pureVars>>

\* the select after the loop: the completion signal or the cancellation
PCI_WaitRecv ==
    /\ pc = "wait"
    /\ WaitReady
    /\ Received
    /\ IF Head(waitCh) # Nil
       THEN Return(<<>>, Head(waitCh))
       ELSE Return(lines, Nil)
    /\ UNCHANGED <<waitRetry, lines, serr, midStream, procState, toWrite, pipe, exitErr, ctxDone, startCalls>>
    /\ UNCHANGED <<rebootVars, pureVars>>

PCI_WaitDone ==
    /\ pc = "wait"
    /\ ctxDone
    /\ Return(<<>>, ErrCanceled)
    /\ UNCHANGED <<lines, serr, midStream, procVars>>
    /\ UNCHANGED <<rebootVars, pureVars>>

\* reaching the select after the loop attempts a receive from Wait()
PCI_Wait == PCI_WaitRecv \/ PCI_WaitDone

PCIStarted == pc \in {"scan", "select", "wait"}

\* the caller cancels the context; a goroutine parked in a select on ctx.Done()
\* is woken with that case
Cancel ==
    /\ ~ctxDone
    /\ ctxDone' = TRUE
    /\ midStream' = (PCIStarted /\ procState = "running" /\ toWrite # <<>>)
    /\ earlyCancel' = (rpc # "idle" /\ timer # "fired")
    /\ gpc' = IF gpc = "parked" THEN "aborted" ELSE gpc
    /\ UNCHANGED <<procState, toWrite, pipe, exitErr, waitCh, waitRecv, waitRetry, startCalls>>
    /\ UNCHANGED <<pc, lines, serr, ret>>
    /\ UNCHANGED <<asRoot, options, cmd, rpc, rebootRet, timer, fpc, fserr, fret>>
    /\ UNCHANGED pureVars

NextPCI ==
    \/ PCI_Locate \/ PCI_New \/ PCI_Start
    \/ PCI_Scan \/ PCI_Select \/ PCI_ScanEOF \/ PCI_ScanErr \/ PCI_Wait
    \/ ProcWrite \/ ProcExit \/ ProcKill
    \/ Cancel

(***************************************************************************)
(* Reboot                                                                  *)
(***************************************************************************)
MaxDelay == 2       \* largest delaySeconds

Delays == (0 - 1)..MaxDelay

RebootIdle ==
    /\ asRoot = FALSE
    /\ options = [delaySeconds |-> 0, useSystemctl |-> FALSE]
    /\ cmd = ""
    /\ rpc = "idle"
    /\ rebootRet = Nil
    /\ gpc = "none"
    /\ timer = "none"
    /\ fpc = "idle"
    /\ fserr = Nil
    /\ fret = Nil
    /\ earlyCancel = FALSE

\* the options after applyOpts, and the effective user
RebootInit ==
    /\ asRoot \in BOOLEAN
    /\ options \in [delaySeconds : Delays, useSystemctl : BOOLEAN]
    /\ cmd = ""
    /\ rpc = "call"
    /\ rebootRet = Nil
    /\ gpc = "none"
    /\ timer = "none"
    /\ fpc = "idle"
    /\ fserr = Nil
    /\ fret = Nil
    /\ earlyCancel = FALSE

IsRoot_Always == TRUE

\* asRoot := stdos.Geteuid() == 0
IsRoot == asRoot

\* the err variable of Reboot that rebootFunc captures: nil once process.New succeeded
OuterErr == Nil

\* Reboot, up to its return or to the start of the inline rebootFunc
Reboot_Call ==
    /\ rpc = "call"
    /\ IF ~IsRoot
       THEN /\ rpc' = "returned"
            /\ rebootRet' = ErrNotRoot
            /\ UNCHANGED <<cmd, gpc, fpc, procState>>
       ELSE /\ cmd' = IF options.useSystemctl THEN "sudo systemctl reboot" ELSE "sudo reboot"
            /\ \/ /\ rpc' = "returned"
                  /\ rebootRet' = ErrNew
                  /\ UNCHANGED <<gpc, fpc, procState>>
               \/ /\ procState' = "created"
                  /\ IF options.delaySeconds = 0
                     THEN /\ rpc' = "inline"
                          /\ fpc' = "start"
                          /\ UNCHANGED <<rebootRet, gpc>>
                     ELSE /\ gpc' = "spawned"
                          /\ rpc' = "returned"
                          /\ rebootRet' = Nil
                          /\ UNCHANGED fpc
    /\ UNCHANGED <<asRoot, options, timer, fserr, fret, earlyCancel>>
    /\ UNCHANGED <<toWrite, pipe, exitErr, waitCh, ctxDone, waitRecv, waitRetry, startCalls>>
    /\ UNCHANGED <<pciVars, pureVars>>

\* the goroutine enters the select: time.After creates the timer
Go_After ==
    /\ gpc = "spawned"
    /\ timer' = "armed"
    /\ gpc' = "select"
    /\ UNCHANGED <<asRoot, options, cmd, rpc, rebootRet, fpc, fserr, fret, earlyCancel, procVars>>
    /\ UNCHANGED <<pciVars, pureVars>>

\* the select picks among the cases that can proceed, or parks the goroutine
Go_Select ==
    /\ gpc = "select"
    /\ \/ /\ timer = "fired"
          /\ gpc' = "expired"
       \/ /\ ctxDone
          /\ gpc' = "aborted"
       \/ /\ timer # "fired" /\ ~ctxDone
          /\ gpc' = "parked"
    /\ UNCHANGED <<asRoot, options, cmd, rpc, rebootRet, timer, fpc, fserr, fret, earlyCancel, procVars>>
    /\ UNCHANGED <<pciVars, pureVars>>

\* the delay expires; a goroutine parked in the select is woken with the timer case
TimerFire ==
    /\ timer = "armed"
    /\ timer' = "fired"
    /\ gpc' = IF gpc = "parked" THEN "expired" ELSE gpc
    /\ UNCHANGED <<asRoot, options, cmd, rpc, rebootRet, fpc, fserr, fret, earlyCancel, procVars>>
    /\ UNCHANGED <<pciVars, pureVars>>

\* "delay expired, rebooting now": the goroutine calls rebootFunc
Go_Reboot ==
    /\ gpc = "expired"
    /\ gpc' = "rebootFunc"
    /\ fpc' = "start"
    /\ UNCHANGED <<asRoot, options, cmd, rpc, rebootRet, timer, fserr, fret, earlyCancel, procVars>>
    /\ UNCHANGED <<pciVars, pureVars>>

\* rebootFunc returns e to Reboot (which returns it) or to the goroutine (which logs it)
FReturn(e) ==
    /\ fret' = e
    /\ fpc' = "done"
    /\ IF rpc = "inline"
       THEN rpc' = "returned" /\ rebootRet' = e /\ UNCHANGED gpc
       ELSE gpc' = "end" /\ UNCHANGED <<rpc, rebootRet>>

RebootOutputs == SeqsUpTo({<<"Rebooting">>}, MaxOut)

F_Start ==
    /\ fpc = "start"
    /\ \/ /\ \E out \in RebootOutputs, e \in {Nil, ErrExit} : Started(out, e)
          /\ fpc' = "scan"
          /\ UNCHANGED <<fret, rpc, rebootRet, gpc>>
       \/ /\ StartFailed
          /\ FReturn(ErrStart)
    /\ UNCHANGED <<asRoot, options, cmd, timer, fserr, earlyCancel>>
    /\ UNCHANGED <<pciVars, pureVars>>

\* scanner.Scan() returns true: the line is printed
F_Scan ==
    /\ fpc = "scan"
    /\ pipe # <<>>
    /\ pipe' = Tail(pipe)
    /\ fpc' = "select"
    /\ UNCHANGED <<asRoot, options, cmd, rpc, rebootRet, gpc, timer, fserr, fret, earlyCancel>>
    /\ UNCHANGED <<procState, toWrite, exitErr, waitCh, ctxDone, waitRecv, waitRetry, startCalls>>
    /\ UNCHANGED <<pciVars, pureVars>>

\* the select with a default case inside the loop
F_Select ==
    /\ fpc = "select"
    /\ waitRetry' = (waitRetry \/ waitRecv > 0)
    /\ IF WaitReady
       THEN /\ Received
            /\ IF Head(waitCh) # Nil
               THEN FReturn(Head(waitCh))
               ELSE fpc' = "scan" /\ UNCHANGED <<fret, rpc, rebootRet, gpc>>
       ELSE /\ fpc' = "scan"
            /\ UNCHANGED <<fret, rpc, rebootRet, gpc, waitCh, waitRecv>>
    /\ UNCHANGED <<asRoot, options, cmd, timer, fserr, earlyCancel>>
    /\ UNCHANGED <<procState, toWrite, pipe, exitErr, ctxDone, startCalls>>
    /\ UNCHANGED <<pciVars, pureVars>>

\* the end of the output with a nil scanner.Err(): "successfully rebooted"
F_ScanEOF ==
    /\ fpc = "scan"
    /\ pipe = <<>>
    /\ procState = "exited"
    /\ fserr' = Nil
    /\ FReturn(Nil)
    /\ UNCHANGED <<asRoot, options, cmd, timer, earlyCancel, procVars>>
    /\ UNCHANGED <<pciVars, pureVars>>

\* a read error ends the loop: "return err" returns the captured err of Reboot
F_ScanErr ==
    /\ fpc = "scan"
    /\ \E e \in ReadErrors :
          /\ ReadFails(e)
          /\ fserr' = e
          /\ IF ~AlreadyClosed(e)
             THEN FReturn(OuterErr)
             ELSE FReturn(Nil)
    /\ UNCHANGED <<asRoot, options, cmd, timer, earlyCancel, procVars>>
    /\ UNCHANGED <<pciVars, pureVars>>

NextReboot ==
    \/ Reboot_Call
    \/ Go_After \/ Go_Select \/ TimerFire \/ Go_Reboot
    \/ F_Start \/ F_Scan \/ F_Select \/ F_ScanEOF \/ F_ScanErr
    \/ ProcWrite \/ ProcExit \/ ProcKill
    \/ Cancel

(***************************************************************************)
(* Initial values of the parts a specification does not run                *)
(***************************************************************************)
OSIdle ==
    /\ o = <<>>
    /\ states = <<>>
    /\ parsed = <<>>
    /\ single = <<>>
    /\ ospc = "idle"

SxidIdle ==
    /\ line = <<>>
    /\ de = <<>>

ActionsIdle ==
    /\ sa = <<>>
    /\ got = <<>>

InitPCI == ProcInit /\ PCIInit /\ RebootIdle /\ OSIdle /\ SxidIdle /\ ActionsIdle

SpecPCI == InitPCI /\ [][NextPCI]_vars

\* the reader and the process are scheduled; the caller need not cancel
FairSpecPCI ==
    /\ SpecPCI
    /\ WF_vars(PCI_Locate \/ PCI_New \/ PCI_Start \/ PCI_Scan \/ PCI_Select
               \/ PCI_ScanEOF \/ PCI_Wait)
    /\ WF_vars(ProcWrite \/ ProcExit \/ ProcKill)

InitReboot == ProcInit /\ PCIIdle /\ RebootInit /\ OSIdle /\ SxidIdle /\ ActionsIdle

SpecReboot == InitReboot /\ [][NextReboot]_vars

(***************************************************************************)
(* Claims on the process runner's callers                                  *)
(***************************************************************************)
StartSucceeded == procState \in {"running", "exited"}

\* C1: in ListNVIDIAPCIs, once the started process has exited successfully,
\* and unless the context is cancelled or a read fails with an I/O error, the
\* call eventually returns the collected lines with a nil error.
C1_EventuallyReturns ==
    (pc \in {"scan", "select", "wait"} /\ procState = "exited" /\ exitErr = Nil)
        ~> (ctxDone \/ serr = ErrIO \/ (pc = "done" /\ ret = [lines |-> lines, err |-> Nil]))

\* C2: when ListNVIDIAPCIs or rebootFunc returns after a successful Start, the
\* completion signal has been received exactly once, and no receive was
\* attempted after a first one succeeded.
C2_WaitReceivedOnce ==
    /\ (pc = "done" /\ StartSucceeded) => (waitRecv = 1 /\ ~waitRetry)
    /\ (fpc = "done" /\ StartSucceeded) => (waitRecv = 1 /\ ~waitRetry)
    /\ ~(pc = "wait" /\ waitRecv > 0)

\* C3: when the context is cancelled while the process started by
\* ListNVIDIAPCIs is still producing output, the call returns ctx.Err() and
\* nothing else (a read failing with an I/O error set aside).
C3_CancelReturnsCtxErr ==
    (midStream /\ pc = "done" /\ serr # ErrIO) => ret = [lines |-> <<>>, err |-> ErrCanceled]

\* C4: in ListNVIDIAPCIs and in rebootFunc, a read error other than "file
\* already closed" is returned to the caller as a non-nil error.
C4_ReadErrorReturned ==
    /\ (pc = "done" /\ serr # Nil /\ ~AlreadyClosed(serr)) => ret.err # Nil
    /\ (fpc = "done" /\ fserr # Nil /\ ~AlreadyClosed(fserr)) => fret # Nil

\* C5: for Reboot as root with delaySeconds > 0, when the context is cancelled
\* before the delay expires Start is never called, and Start is called at most
\* once.
C5_NoStartAfterCancel ==
    (asRoot /\ options.delaySeconds > 0) =>
        /\ startCalls <= 1
        /\ earlyCancel => startCalls = 0

\* C6: Reboot called by a user other than root returns ErrNotRoot, whatever the
\* options; no process is created or started and no goroutine or timer exists,
\* in this state or any later one.
C6_NotRootNoEffect ==
    (rpc # "idle" /\ ~asRoot) =>
        /\ rpc = "returned" => rebootRet = ErrNotRoot
        /\ procState = "none"
        /\ startCalls = 0
        /\ gpc = "none"
        /\ timer = "none"
        /\ fpc = "idle"

C6_Witness ==
    /\ ~asRoot
    /\ rpc = "returned"
    /\ options.delaySeconds > 0
    /\ options.useSystemctl
    /\ ctxDone

(***************************************************************************)
(* Text, and the decimal conversions of fmt and strconv. A text is the     *)
(* sequence of its characters. Integers have the width given by UintMax.   *)
(***************************************************************************)
UintMax == 65535    \* largest unsigned integer of the model

IntMax == UintMax \div 2

Digits == <<"0", "1", "2", "3", "4", "5", "6", "7", "8", "9">>

IsDigit(c) == \E d \in 1..10 : Digits[d] = c

DigitVal(c) == (CHOOSE d \in 1..10 : Digits[d] = c) - 1

ErrSyntax == "invalid syntax"
ErrRange  == "value out of range"

RECURSIVE FormatUint(_)
\* fmt.Sprintf("%d", n) for n >= 0
FormatUint(n) ==
    IF n < 10 THEN <<Digits[n + 1]>>
    ELSE Append(FormatUint(n \div 10), Digits[(n % 10) + 1])

\* fmt.Sprintf("%d", n)
FormatInt(n) == IF n < 0 THEN <<"-">> \o FormatUint(0 - n) ELSE FormatUint(n)

RECURSIVE ParseDigits(_, _, _)
\* the digit loop of strconv.ParseUint: the value of s[i..] appended to n
ParseDigits(s, i, n) ==
    IF i > Len(s) THEN [val |-> n, err |-> Nil]
    ELSE IF ~IsDigit(s[i]) THEN [val |-> 0, err |-> ErrSyntax]
    ELSE IF n >= (UintMax \div 10) + 1 THEN [val |-> UintMax, err |-> ErrRange]
    ELSE IF n * 10 + DigitVal(s[i]) > UintMax THEN [val |-> UintMax, err |-> ErrRange]
    ELSE ParseDigits(s, i + 1, n * 10 + DigitVal(s[i]))

\* strconv.ParseUint(s, 10, 64)
ParseUint(s) ==
    IF s = <<>> THEN [val |-> 0, err |-> ErrSyntax]
    ELSE ParseDigits(s, 1, 0)

\* strconv.Atoi(s)
Atoi(s) ==
    LET neg  == s # <<>> /\ s[1] = "-"
        rest == IF s # <<>> /\ s[1] \in {"-", "+"} THEN Tail(s) ELSE s
        un   == ParseUint(rest)
    IN  IF un.err = ErrSyntax THEN [val |-> 0, err |-> ErrSyntax]
        ELSE IF un.err = ErrRange THEN [val |-> 0, err |-> ErrRange]
        ELSE IF ~neg /\ un.val > IntMax THEN [val |-> 0, err |-> ErrRange]
        ELSE IF neg /\ un.val > IntMax + 1 THEN [val |-> 0, err |-> ErrRange]
        ELSE [val |-> IF neg THEN 0 - un.val ELSE un.val, err |-> Nil]

(***************************************************************************)
(* The OS component: Output, its states and the parsers                    *)
(***************************************************************************)
StateNameHost  == "host"
StateKeyHostID == "id"

StateNameKernel       == "kernel"
StateKeyKernelArch    == "arch"
StateKeyKernelVersion == "version"

StateNamePlatform       == "platform"
StateKeyPlatformName    == "name"
StateKeyPlatformFamily  == "family"
StateKeyPlatformVersion == "version"

StateNameUptimes                   == "uptimes"
StateKeyUptimesSeconds             == "uptime_seconds"
StateKeyUptimesHumanized           == "uptime_humanized"
StateKeyUptimesBootTimeUnixSeconds == "boot_time_unix_seconds"
StateKeyUptimesBootTimeHumanized   == "boot_time_humanized"

StateNameProcessCountsByStatus      == "process_counts_by_status"
StateKeyProcessCountZombieProcesses == "process_count_zombie_processes"

DefaultZombieProcessCountThreshold == 1000

\* m[k] of a Go map: the zero value when the key is absent
Lookup(m, k) == IF k \in DOMAIN m THEN m[k] ELSE <<>>

ZeroUptimes ==
    [Seconds |-> 0, SecondsHumanized |-> <<>>,
     BootTimeUnixSeconds |-> 0, BootTimeHumanized |-> <<>>]

ZeroOutput ==
    [Host |-> [ID |-> <<>>],
     Kernel |-> [Arch |-> <<>>, Version |-> <<>>],
     Platform |-> [Name |-> <<>>, Family |-> <<>>, Version |-> <<>>],
     Uptimes |-> ZeroUptimes,
     ProcessCountZombieProcesses |-> 0]

\* the nil *Output returned with an error
NilOutput == [nil |-> TRUE]

ParseStateHost(m) ==
    [val |-> [ID |-> Lookup(m, StateKeyHostID)], err |-> Nil]

ParseStateKernel(m) ==
    [val |-> [Arch |-> Lookup(m, StateKeyKernelArch),
              Version |-> Lookup(m, StateKeyKernelVersion)],
     err |-> Nil]

ParseStatePlatform(m) ==
    [val |-> [Name |-> Lookup(m, StateKeyPlatformName),
              Family |-> Lookup(m, StateKeyPlatformFamily),
              Version |-> Lookup(m, StateKeyPlatformVersion)],
     err |-> Nil]

ParseStateUptimes_Swapped(m) ==
    LET secs == ParseUint(Lookup(m, StateKeyUptimesBootTimeUnixSeconds))
        boot == ParseUint(Lookup(m, StateKeyUptimesBootTimeUnixSeconds))
    IN  IF secs.err # Nil THEN [val |-> ZeroUptimes, err |-> secs.err]
        ELSE IF boot.err # Nil THEN [val |-> ZeroUptimes, err |-> boot.err]
        ELSE [val |-> [Seconds |-> secs.val,
                       SecondsHumanized |-> Lookup(m, StateKeyUptimesHumanized),
                       BootTimeUnixSeconds |-> boot.val,
                       BootTimeHumanized |-> Lookup(m, StateKeyUptimesBootTimeHumanized)],
              err |-> Nil]

ParseStateUptimes(m) ==
    LET secs == ParseUint(Lookup(m, StateKeyUptimesSeconds))
        boot == ParseUint(Lookup(m, StateKeyUptimesBootTimeUnixSeconds))
    IN  IF secs.err # Nil THEN [val |-> ZeroUptimes, err |-> secs.err]
        ELSE IF boot.err # Nil THEN [val |-> ZeroUptimes, err |-> boot.err]
        ELSE [val |-> [Seconds |-> secs.val,
                       SecondsHumanized |-> Lookup(m, StateKeyUptimesHumanized),
                       BootTimeUnixSeconds |-> boot.val,
                       BootTimeHumanized |-> Lookup(m, StateKeyUptimesBootTimeHumanized)],
              err |-> Nil]

ParseStateProcessCountZombieProcesses(m) ==
    IF StateKeyProcessCountZombieProcesses \in DOMAIN m
    THEN LET count == Atoi(m[StateKeyProcessCountZombieProcesses])
         IN  IF count.err # Nil THEN [val |-> 0, err |-> count.err]
             ELSE [val |-> count.val, err |-> Nil]
    ELSE [val |-> 0, err |-> Nil]

ErrUnknownState == "unknown state name"

RECURSIVE ParseStatesFrom(_, _, _)
\* the loop of ParseStatesToOutput from the i-th state on, out being built
ParseStatesFrom(ss, i, out) ==
    IF i > Len(ss) THEN [out |-> out, err |-> Nil]
    ELSE
      LET name == ss[i].Name
          m    == ss[i].ExtraInfo
      IN  IF name = StateNameHost THEN
            LET r == ParseStateHost(m)
            IN  IF r.err # Nil THEN [out |-> NilOutput, err |-> r.err]
                ELSE ParseStatesFrom(ss, i + 1, [out EXCEPT !.Host = r.val])
          ELSE IF name = StateNameKernel THEN
            LET r == ParseStateKernel(m)
            IN  IF r.err # Nil THEN [out |-> NilOutput, err |-> r.err]
                ELSE ParseStatesFrom(ss, i + 1, [out EXCEPT !.Kernel = r.val])
          ELSE IF name = StateNamePlatform THEN
            LET r == ParseStatePlatform(m)
            IN  IF r.err # Nil THEN [out |-> NilOutput, err |-> r.err]
                ELSE ParseStatesFrom(ss, i + 1, [out EXCEPT !.Platform = r.val])
          ELSE IF name = StateNameUptimes THEN
            LET r == ParseStateUptimes(m)
            IN  IF r.err # Nil THEN [out |-> NilOutput, err |-> r.err]
                ELSE ParseStatesFrom(ss, i + 1, [out EXCEPT !.Uptimes = r.val])
          ELSE IF name = StateNameProcessCountsByStatus THEN
            LET r == ParseStateProcessCountZombieProcesses(m)
            IN  IF r.err # Nil THEN [out |-> NilOutput, err |-> r.err]
                ELSE ParseStatesFrom(ss, i + 1,
                                     [out EXCEPT !.ProcessCountZombieProcesses = r.val])
          ELSE [out |-> NilOutput, err |-> ErrUnknownState]

ParseStatesToOutput(ss) == ParseStatesFrom(ss, 1, ZeroOutput)

\* o.States(): the error it returns is always nil
States(out) ==
    << [Name |-> StateNameHost,
        Healthy |-> TRUE,
        Reason |-> <<"host id: ">> \o out.Host.ID,
        ExtraInfo |-> (StateKeyHostID :> out.Host.ID)],
       [Name |-> StateNameKernel,
        Healthy |-> TRUE,
        Reason |-> <<"arch: ">> \o out.Kernel.Arch \o <<", version: ">> \o out.Kernel.Version,
        ExtraInfo |-> (StateKeyKernelArch :> out.Kernel.Arch
                       @@ StateKeyKernelVersion :> out.Kernel.Version)],
       [Name |-> StateNamePlatform,
        Healthy |-> TRUE,
        Reason |-> <<"name: ">> \o out.Platform.Name \o <<", family: ">> \o out.Platform.Family
                   \o <<", version: ">> \o out.Platform.Version,
        ExtraInfo |-> (StateKeyPlatformName :> out.Platform.Name
                       @@ StateKeyPlatformFamily :> out.Platform.Family
                       @@ StateKeyPlatformVersion :> out.Platform.Version)],
       [Name |-> StateNameUptimes,
        Healthy |-> TRUE,
        Reason |-> <<"uptime: ">> \o out.Uptimes.SecondsHumanized
                   \o <<", boot time: ">> \o out.Uptimes.BootTimeHumanized,
        ExtraInfo |-> (StateKeyUptimesSeconds :> FormatInt(out.Uptimes.Seconds)
                       @@ StateKeyUptimesHumanized :> out.Uptimes.SecondsHumanized
                       @@ StateKeyUptimesBootTimeUnixSeconds :> FormatInt(out.Uptimes.BootTimeUnixSeconds)
                       @@ StateKeyUptimesBootTimeHumanized :> out.Uptimes.BootTimeHumanized)],
       [Name |-> StateNameProcessCountsByStatus,
        Healthy |-> ~(out.ProcessCountZombieProcesses >= DefaultZombieProcessCountThreshold),
        Reason |-> (IF out.ProcessCountZombieProcesses >= DefaultZombieProcessCountThreshold
                    THEN <<"too many zombie processes: ">>
                    ELSE <<"zombie processes: ">>)
                   \o FormatInt(out.ProcessCountZombieProcesses)
                   \o <<" (threshold: ">> \o FormatInt(DefaultZombieProcessCountThreshold) \o <<")">>,
        ExtraInfo |-> (StateKeyProcessCountZombieProcesses
                          :> FormatInt(out.ProcessCountZombieProcesses))] >>

\* the Outputs considered
Outputs ==
    { [Host |-> [ID |-> id],
       Kernel |-> k,
       Platform |-> p,
       Uptimes |-> [Seconds |-> secs, SecondsHumanized |-> h[1],
                    BootTimeUnixSeconds |-> boot, BootTimeHumanized |-> h[2]],
       ProcessCountZombieProcesses |-> z] :
        id \in {<<>>, <<"h", "0", "1">>},
        k \in {[Arch |-> <<>>, Version |-> <<>>],
               [Arch |-> <<"x", "8", "6">>, Version |-> <<"5", ".", "1">>]},
        p \in {[Name |-> <<>>, Family |-> <<>>, Version |-> <<>>],
               [Name |-> <<"u">>, Family |-> <<"d">>, Version |-> <<"2", "2">>]},
        h \in {<< <<>>, <<>> >>, << <<"1", "h">>, <<"2", "d">> >>},
        secs \in {0, 10, UintMax},
        boot \in {0, 907, UintMax},
        z \in {0 - IntMax - 1, 0 - 1, 0, 999, DefaultZombieProcessCountThreshold, IntMax} }

OSInit ==
    /\ o \in Outputs
    /\ states = <<>>
    /\ parsed = <<>>
    /\ single = <<>>
    /\ ospc = "input"

\* o.States()
OS_States ==
    /\ ospc = "input"
    /\ states' = States(o)
    /\ ospc' = "states"
    /\ UNCHANGED <<o, parsed, single, procVars, callerVars, sxidVars, actVars>>

\* the states were written by an older schema version: one key is absent
OS_OlderSchema ==
    /\ ospc = "states"
    /\ states = States(o)
    /\ \E i \in DOMAIN states : \E k \in DOMAIN states[i].ExtraInfo :
          states' = [states EXCEPT ![i].ExtraInfo =
                        [x \in (DOMAIN states[i].ExtraInfo) \ {k} |-> states[i].ExtraInfo[x]]]
    /\ UNCHANGED <<o, parsed, single, ospc, procVars, callerVars, sxidVars, actVars>>

\* ParseStatesToOutput(states...)
OS_ParseStatesToOutput ==
    /\ ospc = "states"
    /\ parsed' = <<ParseStatesToOutput(states)>>
    /\ ospc' = "parsed"
    /\ UNCHANGED <<o, states, single, procVars, callerVars, sxidVars, actVars>>

\* the ParseState* function of one state's name, applied to its extra_info
ParseStateOf(st) ==
    IF st.Name = StateNameHost THEN ParseStateHost(st.ExtraInfo)
    ELSE IF st.Name = StateNameKernel THEN ParseStateKernel(st.ExtraInfo)
    ELSE IF st.Name = StateNamePlatform THEN ParseStatePlatform(st.ExtraInfo)
    ELSE IF st.Name = StateNameUptimes THEN ParseStateUptimes(st.ExtraInfo)
    ELSE ParseStateProcessCountZombieProcesses(st.ExtraInfo)

OS_ParseState ==
    /\ ospc = "states"
    /\ \E i \in DOMAIN states :
          single' = <<[name |-> states[i].Name, res |-> ParseStateOf(states[i])]>>
    /\ ospc' = "single"
    /\ UNCHANGED <<o, states, parsed, procVars, callerVars, sxidVars, actVars>>

NextOS == OS_States \/ OS_OlderSchema \/ OS_ParseStatesToOutput \/ OS_ParseState

InitOS == ProcInit /\ PCIIdle /\ RebootIdle /\ OSInit /\ SxidIdle /\ ActionsIdle

SpecOS == InitOS /\ [][NextOS]_vars

\* C7: for every Output o, ParseStatesToOutput applied to the states of
\* o.States() returns no error and an Output equal to o in every field.
C7_RoundTrip ==
    (ospc = "parsed" /\ states = States(o)) => parsed = <<[out |-> o, err |-> Nil]>>

C7_Witness ==
    /\ ospc = "parsed"
    /\ states = States(o)
    /\ o.Uptimes.Seconds = UintMax
    /\ o.Uptimes.BootTimeUnixSeconds = 907
    /\ o.ProcessCountZombieProcesses < 0
    /\ o.Kernel.Version # o.Platform.Version
    /\ parsed[1].out = o

\* C8: a ParseState* function, and ParseStatesToOutput, given an extra_info
\* from which a key of the state's schema is absent, return without error.
C8_MissingKeyTolerated ==
    /\ ospc = "parsed" => parsed[1].err = Nil
    /\ ospc = "single" => single[1].res.err = Nil

(***************************************************************************)
(* The NVSwitch SXid dmesg parser. A line is a sequence of tokens: the     *)
(* marker "SXid", the separator ": ", the comma, single digits, and other  *)
(* text.                                                                   *)
(***************************************************************************)
TokSXid  == "SXid"
TokColon == ": "
TokComma == ","
TokCtime == "[131453.740743] "

\* the end of the longest run of digits that starts at position j + 1
DigitRunEnd(l, j) ==
    CHOOSE e \in j..Len(l) :
        /\ \A x \in (j + 1)..e : IsDigit(l[x])
        /\ e = Len(l) \/ ~IsDigit(l[e + 1])

\* ": " at position j is followed by one digit or more and then a comma
CodeAt(l, j) ==
    /\ l[j] = TokColon
    /\ DigitRunEnd(l, j) > j
    /\ DigitRunEnd(l, j) < Len(l)
    /\ l[DigitRunEnd(l, j) + 1] = TokComma

\* CompiledRegexNVSwitchSXidDmesg.FindStringSubmatch(line), `SXid.*?: (\d+),`:
\* the leftmost match, its lazy gap the shortest; <<>> stands for no match,
\* <<group>> for a match with its captured group
FindStringSubmatch(l) ==
    LET hits == {i \in DOMAIN l : l[i] = TokSXid /\ \E j \in (i + 1)..Len(l) : CodeAt(l, j)}
    IN  IF hits = {} THEN <<>>
        ELSE LET i == CHOOSE x \in hits : \A y \in hits : x <= y
                 j == CHOOSE x \in (i + 1)..Len(l) :
                         CodeAt(l, x) /\ \A y \in (i + 1)..Len(l) : CodeAt(l, y) => x <= y
             IN  <<SubSeq(l, j + 1, DigitRunEnd(l, j))>>

ExtractNVSwitchSXid(l) ==
    LET match == FindStringSubmatch(l)
    IN  IF match # <<>> /\ Atoi(match[1]).err = Nil THEN Atoi(match[1]).val ELSE 0

\* the codes of the static catalog
CatalogCodes == {12028, 20034}

NilDetail == [nil |-> TRUE]

\* GetDetail(id): the catalog entry of a code, if any
GetDetail(id) ==
    IF id \in CatalogCodes THEN [detail |-> [SXid |-> id], ok |-> TRUE]
    ELSE [detail |-> NilDetail, ok |-> FALSE]

\* pkg_dmesg.ParseCtimeWithError, with time.Now() as the fallback
LineTime(l) == IF l # <<>> /\ l[1] = TokCtime THEN "131453.740743" ELSE "now"

ParseDmesgLogLine(l) ==
    LET errCode == ExtractNVSwitchSXid(l)
        found   == GetDetail(errCode)
    IN  [de  |-> [Detail |-> IF found.ok THEN found.detail ELSE NilDetail,
                  LogItem |-> [Line |-> l, Matched |-> <<>>, Time |-> LineTime(l)]],
         err |-> Nil]

\* the dmesg lines considered
DmesgLines ==
    { pre \o body \o code \o post :
        pre  \in {<<>>, <<TokCtime>>},
        body \in {<<"nvidia-nvswitch0: ", TokSXid, " (PCI:0000:00:00.0)", TokColon>>,
                  <<TokSXid, TokColon>>,
                  <<"NVRM: Xid", TokColon>>,
                  <<TokSXid, " ">>},
        code \in {<<>>, <<"0">>, <<"9", "9">>, <<"1", "2", "0", "2", "8">>,
                  <<"2", "0", "0", "3", "4">>},
        post \in {<<>>, <<TokComma, " Fatal">>, <<" Fatal", TokComma>>} }

SxidInit ==
    /\ line \in DmesgLines
    /\ de = <<>>

Sxid_ParseDmesgLogLine ==
    /\ de = <<>>
    /\ de' = <<ParseDmesgLogLine(line)>>
    /\ UNCHANGED <<line, procVars, callerVars, osVars, actVars>>

NextSxid == Sxid_ParseDmesgLogLine

InitSxid == ProcInit /\ PCIIdle /\ RebootIdle /\ OSIdle /\ SxidInit /\ ActionsIdle

SpecSxid == InitSxid /\ [][NextSxid]_vars

\* C9: ParseDmesgLogLine returns no error; detail is absent when no code is
\* found and when the code has no catalog entry; the matched field holds the
\* captured fault-code substring when the pattern matched and is empty
\* otherwise.
C9_MatchedTellsApart ==
    de # <<>> =>
        /\ de[1].err = Nil
        /\ ExtractNVSwitchSXid(line) \notin CatalogCodes => de[1].de.Detail = NilDetail
        /\ de[1].de.LogItem.Matched = FindStringSubmatch(line)

(***************************************************************************)
(* SuggestedActions.RequiresReboot                                         *)
(***************************************************************************)
MaxActions == 6     \* longest RepairActions list

RepairActionTypeRebootSystem   == "REBOOT_SYSTEM"
RepairActionTypeRepairHardware == "REPAIR_HARDWARE"

RepairActionTypes == {RepairActionTypeRebootSystem, RepairActionTypeRepairHardware}

RequiresReboot_FirstOnly(actions) ==
    actions # <<>> /\ actions[1] = RepairActionTypeRebootSystem

RECURSIVE RequiresReboot(_)
\* the loop over RepairActions: true at the first reboot-system tag
RequiresReboot(actions) ==
    IF actions = <<>> THEN FALSE
    ELSE IF Head(actions) = RepairActionTypeRebootSystem THEN TRUE
    ELSE RequiresReboot(Tail(actions))

\* the table of TestSuggestedActions_RequiresReboot
TestCases ==
    { [name |-> "nil", sa |-> <<>>, want |-> FALSE],
      [name |-> "requires reboot", sa |-> <<RepairActionTypeRebootSystem>>, want |-> TRUE],
      [name |-> "requires reboot and repair hardware",
       sa |-> <<RepairActionTypeRebootSystem, RepairActionTypeRepairHardware>>, want |-> TRUE],
      [name |-> "does not require reboot", sa |-> <<RepairActionTypeRepairHardware>>,
       want |-> FALSE] }

ActionsInit ==
    /\ sa \in SeqsUpTo(RepairActionTypes, MaxActions)
    /\ got = <<>>

\* tt.sa.RequiresReboot()
Call_RequiresReboot ==
    /\ got = <<>>
    /\ got' = <<RequiresReboot(sa)>>
    /\ UNCHANGED <<sa, procVars, callerVars, osVars, sxidVars>>

NextActions == Call_RequiresReboot

InitActions == ProcInit /\ PCIIdle /\ RebootIdle /\ OSIdle /\ SxidIdle /\ ActionsInit

SpecActions == InitActions /\ [][NextActions]_vars

\* C10: RequiresReboot() is true exactly when RepairActions contains the
\* reboot-system tag, at any position and among any other tags; the four cases
\* of the test table have the result the table wants.
C10_RequiresRebootIffTag ==
    got # <<>> =>
        /\ got[1] = (RepairActionTypeRebootSystem \in Range(sa))
        /\ \A tt \in TestCases : tt.sa = sa => got[1] = tt.want

C10_Witness ==
    /\ got = <<TRUE>>
    /\ Len(sa) >= 3
    /\ sa[1] = RepairActionTypeRepairHardware
    /\ sa[Len(sa)] = RepairActionTypeRebootSystem

====
